---- MODULE Spec2Model ----
(***************************************************************************)
(* Model of the recording page (pages/page6.jsx): microphone capture,      *)
(* capture-format selection, the recorder's stop handler and the in-browser*)
(* re-encoding of the captured audio into a 16-bit mono PCM container.     *)
(***************************************************************************)
EXTENDS Integers, Sequences, FiniteSets, TLC

(* ------------------------------ bounds --------------------------------- *)

\* number of startRecording invocations followed in one behaviour
MaxRec == 2
\* largest number of samples per channel of a decoded AudioBuffer
MaxSamples == 1
\* largest channel count of a decoded AudioBuffer
MaxChannels == 2

Recs == 1..MaxRec

\* sample amplitudes are counted in quarters: the float s is the integer 4*s
Unit == 4
\* the amplitudes a decoded channel holds here: -1.5, 0.0, 0.5 (even numbers
\* of quarters, so that the mean of two of them is a whole number of quarters)
SampleVals == {-6, 0, 2}
\* the sample rates a decoded AudioBuffer can have
SampleRates == {44100}

(* --------------------------- byte encodings ---------------------------- *)

\* DataView.setUint16(offset, v, true)
setUint16(v) ==
  LET w == v % 65536 IN << w % 256, w \div 256 >>

\* a setUint32 without its littleEndian argument: high byte first
setUint32BigEndian(v) ==
  << (v \div 16777216) % 256, (v \div 65536) % 256, (v \div 256) % 256,
     v % 256 >>

\* DataView.setUint32(offset, v, true)
\* (the four low bytes of v: the value is taken modulo 2^32)
setUint32(v) ==
  << v % 256, (v \div 256) % 256, (v \div 65536) % 256,
     (v \div 16777216) % 256 >>

\* truncation of a rational num/den towards zero (ToIntegerOrInfinity)
Trunc(num, den) ==
  IF num >= 0 THEN num \div den ELSE -((-num) \div den)

\* DataView.setInt16(offset, v, true) of the rational num/den: truncate, wrap
\* modulo 2^16, store the two's complement low byte first
setInt16(num, den) == setUint16(Trunc(num, den))

\* writeString(offset, string): the char codes of the four chunk tags
writeString(s) ==
  CASE s = "RIFF" -> << 82, 73, 70, 70 >>
    [] s = "WAVE" -> << 87, 65, 86, 69 >>
    [] s = "fmt " -> << 102, 109, 116, 32 >>
    [] s = "data" -> << 100, 97, 116, 97 >>

(* ------------------------ capture-format choice ------------------------ *)

\* the alternatives tried when audio/wav is not supported
formats ==
  << "audio/webm;codecs=pcm", "audio/webm;codecs=opus", "audio/webm",
     "audio/ogg;codecs=opus", "audio/mp4" >>

\* every format startRecording can ask the platform about
Candidates == {"audio/wav"} \cup { formats[i] : i \in 1..Len(formats) }

\* a find that keeps the last supported element instead of the first
RECURSIVE findLast(_, _)
findLast(fs, S) ==
  IF fs = << >> THEN ""
  ELSE IF fs[Len(fs)] \in S THEN fs[Len(fs)]
       ELSE findLast(SubSeq(fs, 1, Len(fs) - 1), S)

\* Array.prototype.find over formats: first supported element, "" for undefined
RECURSIVE find(_, _)
find(fs, S) ==
  IF fs = << >> THEN ""
  ELSE IF Head(fs) \in S THEN Head(fs) ELSE find(Tail(fs), S)

\* the mimeType startRecording passes to the MediaRecorder constructor
selectMimeType(S) ==
  IF "audio/wav" \in S THEN "audio/wav"
  ELSE IF find(formats, S) # "" THEN find(formats, S) ELSE "audio/webm"

\* String.prototype.includes on the mime types the selection can return
includes(m, sub) ==
  CASE sub = "webm" ->
         m \in {"audio/webm;codecs=pcm", "audio/webm;codecs=opus", "audio/webm"}
    [] sub = "ogg" -> m = "audio/ogg;codecs=opus"
    [] OTHER -> FALSE

\* a test that sends every captured blob through convertToWav
needsConversionAlways(m) == includes(m, "webm") \/ ~ includes(m, "webm")

\* the stop handler's test: does the captured blob go through convertToWav
needsConversion(m) == includes(m, "webm") \/ includes(m, "ogg")

(* ----------------------------- re-encoder ------------------------------ *)

\* the AudioBuffers decodeAudioData can resolve with
RECURSIVE SeqsUpTo(_, _)
SeqsUpTo(V, n) ==
  IF n = 0 THEN { << >> }
  ELSE LET P == SeqsUpTo(V, n - 1)
       IN  P \cup { Append(p, v) : p \in { q \in P : Len(q) = n - 1 }, v \in V }

AudioBuffers ==
  { [sampleRate |-> sr, channels |-> ch] :
      sr \in SampleRates,
      ch \in { c \in SeqsUpTo(SeqsUpTo(SampleVals, MaxSamples), MaxChannels) :
                 /\ Len(c) >= 1
                 /\ \A i \in 1..Len(c) : Len(c[i]) = Len(c[1]) } }

\* a mono mix that adds the two channels without halving
downmixSum(ab) ==
  IF Len(ab.channels) = 1 THEN ab.channels[1]
  ELSE [ i \in 1..Len(ab.channels[1]) |->
           ab.channels[1][i] + ab.channels[2][i] ]

\* mono mix: channel 0 when there is one channel, else the mean of 0 and 1
downmixToMono(ab) ==
  IF Len(ab.channels) = 1 THEN ab.channels[1]
  ELSE [ i \in 1..Len(ab.channels[1]) |->
           (ab.channels[1][i] + ab.channels[2][i]) \div 2 ]

\* no clamping at all
clampNone(s) == s

\* Math.max(-1, Math.min(1, s))
clamp(s) ==
  LET lo == IF s < Unit THEN s ELSE Unit
  IN  IF lo > -Unit THEN lo ELSE -Unit

\* a write loop that scales negative samples by 0x7FFF as well
quantizeSymmetric(s) == setInt16(clamp(s) * 32767, Unit)

\* a write loop that stores unsigned samples (silence at mid-scale)
quantizeUnsigned(s) ==
  LET sample == clamp(s)
  IN  IF sample < 0 THEN setUint16(Trunc(sample * 32768, Unit) + 32768)
      ELSE setUint16(Trunc(sample * 32767, Unit) + 32768)

\* one sample of the write loop: clamp, scale, store as int16 little-endian
quantize(s) ==
  LET sample == clamp(s)
  IN  IF sample < 0 THEN setInt16(sample * 32768, Unit)
      ELSE setInt16(sample * 32767, Unit)

RECURSIVE writeSamples(_)
writeSamples(mono) ==
  IF mono = << >> THEN << >>
  ELSE quantize(Head(mono)) \o writeSamples(Tail(mono))

\* the fixed fields of the container: mono, PCM, 16 bits per sample
numChannels == 1
format == 1
bitDepth == 16

\* a payload length that counts bits instead of bytes
dataLengthInBits(mono) == Len(mono) * bitDepth

\* the payload length in bytes
dataLength(mono) == Len(mono) * (bitDepth \div 8)

\* a RIFF size that counts the whole file
riffSizeWholeFile(len) == 44 + len

\* the RIFF chunk size written at offset 4
riffSize(len) == 36 + len

\* a byte rate that leaves out the bytes per sample
byteRateInSamples(sampleRate) == sampleRate * numChannels

\* the byte rate written at offset 28
byteRate(sampleRate) == sampleRate * numChannels * (bitDepth \div 8)

\* the block alignment written at offset 32
blockAlign == numChannels * (bitDepth \div 8)

\* header and payload of the container: a zero-filled buffer of 44 bytes plus
\* the payload length, into which the header and then the samples are written
encodePcmContainer(mono, sampleRate) ==
  LET buffer == [ i \in 1..(44 + dataLength(mono)) |-> 0 ]
      written ==
        writeString("RIFF") \o setUint32(riffSize(dataLength(mono)))
        \o writeString("WAVE")
        \o writeString("fmt ") \o setUint32(16) \o setUint16(format)
        \o setUint16(numChannels) \o setUint32(sampleRate)
        \o setUint32(byteRate(sampleRate))
        \o setUint16(blockAlign) \o setUint16(bitDepth)
        \o writeString("data") \o setUint32(dataLength(mono))
        \o writeSamples(mono)
  IN  [ i \in 1..Len(buffer) |->
          IF i <= Len(written) THEN written[i] ELSE buffer[i] ]

\* a Blob: its type tag and its content
Blob(data, type) == [type |-> type, data |-> data]

\* the decode results followed through whole recordings: every channel count
\* and length, each channel holding one amplitude throughout
decodeResults ==
  { ab \in AudioBuffers :
      \A c \in 1..Len(ab.channels) : \A i \in 1..Len(ab.channels[c]) :
        ab.channels[c][i] = ab.channels[1][1] }

audioBufferToWav(ab) ==
  Blob(encodePcmContainer(downmixToMono(ab), ab.sampleRate), "audio/wav")

(* ------------------------------- state --------------------------------- *)

VARIABLES
  supported,    \* the formats MediaRecorder.isTypeSupported accepts
  phase,        \* position of each startRecording invocation / its recorder
  mimeType,     \* the mimeType local of each invocation ("" before selection)
  streamLive,   \* the invocation's stream has tracks that are not stopped
  chunks,       \* the chunks array of each invocation
  recording,    \* React state `recording`: 0 for false, else the invocation
  audioData,    \* React state `audioData`: the blob, or NoAudio for null
  alerts,       \* alerts shown by each startRecording invocation
  path,         \* the branch the stop handler took for each recorder
  decodeCalls,  \* convertToWav invocations per recorder
  stopRuns,     \* executions of the stop handler per recorder
  setCalls,     \* setAudioData calls per recorder
  stopOrder,    \* recorders in the order stopRecording stopped them
  setOrder,     \* recorders in the order their setAudioData was called
  analyze,      \* position of each handleAnalyze invocation
  file,         \* the blob each invocation appended as form field `file`
  analyzeAlerts, \* alerts shown by each handleAnalyze invocation
  emotionResult, \* localStorage entry emotionResult (0 when absent)
  navigations,  \* calls of onAnalyze (navigation to the result page)
  audioBuffer,  \* the AudioBuffer handed to audioBufferToWav on its own
  wavBlob,      \* the blob audioBufferToWav returned for audioBuffer
  localStorage, \* window.localStorage: each key's string, or null
  now,          \* the clock read by Date.now() and new Date()
  backup,       \* the object exportAllData returned to its caller last
  returned,     \* what the storage module's last call returned
  messages,     \* chat page: React state `messages`
  isLoading,    \* chat page: React state `isLoading`
  currentEmotion, \* chat page: React state `currentEmotion`
  isRecording,  \* chat page: React state `isRecording` (0 for false)
  send          \* chat page: position of each text or voice message

\* the state of the recorder and its handlers
pageVars ==
  << supported, phase, mimeType, streamLive, chunks, recording, audioData,
     alerts, path, decodeCalls, stopRuns, setCalls, stopOrder, setOrder >>

\* the state of handleAnalyze
analyzeVars == << analyze, file, analyzeAlerts, emotionResult, navigations >>

\* the input and the output of audioBufferToWav taken on its own
wavVars == << audioBuffer, wavBlob >>

\* the browser's storage and what the callers of the storage module hold
storageVars == << localStorage, now, backup, returned >>

\* the state of the chat page
chatVars == << messages, isLoading, currentEmotion, isRecording, send >>

\* what the recording page leaves alone
offRecordingPage == << storageVars, chatVars >>

\* what the recorder's handlers leave alone
offPage == << analyzeVars, wavVars, offRecordingPage >>

vars ==
  << supported, phase, mimeType, streamLive, chunks, recording, audioData,
     alerts, path, decodeCalls, stopRuns, setCalls, stopOrder, setOrder,
     analyze, file, analyzeAlerts, emotionResult, navigations,
     audioBuffer, wavBlob, localStorage, now, backup, returned,
     messages, isLoading, currentEmotion, isRecording, send >>

NoAudio == Blob(<< >>, "")

\* no AudioBuffer
NoBuffer == [sampleRate |-> 0, channels |-> << >>]

\* JavaScript's null
null == [kind |-> "null"]

\* JavaScript's true and false as return values
true == [kind |-> "true"]
false == [kind |-> "false"]

\* the keys of the storage module
STORAGE_KEYS ==
  [USER_PROFILE |-> "beyondWords_userProfile",
   SURVEY_DATA |-> "beyondWords_surveyData",
   CONVERSATION_HISTORY |-> "beyondWords_conversations",
   EMOTION_RESULTS |-> "beyondWords_emotionResults",
   LAST_SESSION |-> "beyondWords_lastSession"]

\* Object.values(STORAGE_KEYS)
storageKeys == {STORAGE_KEYS[f] : f \in DOMAIN STORAGE_KEYS}

\* the keys the pages write themselves and that localStorage holds here; the
\* third one, emotionResult, is the variable emotionResult
pageKeys == {"userSurvey", "chatHistory"}

\* JSON.stringify and JSON.parse on plain data (records, sequences, strings
\* and integers), which is all the model hands them: on such data parse
\* undoes stringify, and a stored string is never the empty string
stringify(v) == [kind |-> "string", json |-> v]
parse(str) == str.json

\* localStorage.getItem, setItem and removeItem on a storage ls
getItem(ls, key) == ls[key]
setItem(ls, key, str) == [ls EXCEPT ![key] = str]
removeItem(ls, key) == [ls EXCEPT ![key] = null]

\* a storage without entries
emptyStorage == [key \in storageKeys \cup pageKeys |-> null]

\* number of text and voice messages followed on the chat page
MaxSend == 2

Sends == 1..MaxSend

\* the emotions of the chat page: a label, and for a detected emotion the
\* message the backend detected it for (0 otherwise)
calm == << "calm", 0 >>
neutral == << "neutral", 0 >>
analyzing == << "analyzing", 0 >>
detected_emotion(m) == << "detected", m >>

\* the greeting; `of` names the message an entry belongs to (0 for none)
initialMessage ==
  << [sender |-> "bot", text |-> "greeting", emotion |-> calm, of |-> 0] >>

\* the saved chat history, or the greeting when there is none
loadHistory(ls) ==
  IF getItem(ls, "chatHistory") # null
  THEN parse(getItem(ls, "chatHistory"))
  ELSE initialMessage

\* the storage module's callers and the chat page after construction over
\* the storage ls, with emotionResult already set by InitOn or InitStored
offRecordingPageInit(ls) ==
  /\ localStorage = ls
  /\ now = 0
  /\ backup = null
  /\ returned = null
  /\ messages = loadHistory(ls)
  /\ isLoading = FALSE
  /\ currentEmotion = neutral
  /\ isRecording = 0
  /\ send = [m \in Sends |-> "idle"]

\* number of handleAnalyze invocations followed in one behaviour
MaxAnalyze == 2

Analyses == 1..MaxAnalyze

\* the platforms followed through whole recordings: one per outcome of the
\* format selection (each candidate alone, and none of them)
Platforms == { {} } \cup { {f} : f \in Candidates }

\* the page after construction on a platform drawn from P
\* and with the AudioBuffer of the stand-alone conversion drawn from B
recordingPageInit(P, B) ==
  /\ supported \in P
  /\ audioBuffer \in B
  /\ wavBlob = NoAudio
  /\ analyze = [a \in Analyses |-> "idle"]
  /\ file = [a \in Analyses |-> NoAudio]
  /\ analyzeAlerts = [a \in Analyses |-> 0]
  /\ navigations = 0
  /\ phase = [r \in Recs |-> "idle"]
  /\ mimeType = [r \in Recs |-> ""]
  /\ streamLive = [r \in Recs |-> FALSE]
  /\ chunks = [r \in Recs |-> << >>]
  /\ recording = 0
  /\ audioData = NoAudio
  /\ alerts = [r \in Recs |-> 0]
  /\ path = [r \in Recs |-> "none"]
  /\ decodeCalls = [r \in Recs |-> 0]
  /\ stopRuns = [r \in Recs |-> 0]
  /\ setCalls = [r \in Recs |-> 0]
  /\ stopOrder = << >>
  /\ setOrder = << >>

\* the application opened for the first time: nothing is stored yet
InitOn(P, B) ==
  /\ recordingPageInit(P, B)
  /\ emotionResult = 0
  /\ offRecordingPageInit(emptyStorage)

Init == InitOn(Platforms, {NoBuffer})

\* setAudioData({ blob, url }) called by recorder r's stop handler
setAudioData(r, blob) ==
  /\ audioData' = blob
  /\ setCalls' = [setCalls EXCEPT ![r] = @ + 1]
  /\ setOrder' = Append(setOrder, r)

(* --------------------------- startRecording ---------------------------- *)

\* mic button tapped while `recording` is falsy: startRecording runs up to
\* its await of getUserMedia
startRecording ==
  /\ recording = 0
  /\ \E r \in Recs :
       /\ phase[r] = "idle"
       /\ \A q \in Recs : q < r => phase[q] # "idle"
       /\ phase' = [phase EXCEPT ![r] = "awaitPerm"]
  /\ UNCHANGED << supported, mimeType, streamLive, chunks, recording,
                  audioData, alerts, path, decodeCalls, stopRuns, setCalls,
                  stopOrder, setOrder >>
  /\ UNCHANGED offPage

\* getUserMedia resolved: format selection, recorder construction and start
getUserMediaResolved(r) ==
  /\ phase[r] = "awaitPerm"
  /\ streamLive' = [streamLive EXCEPT ![r] = TRUE]
  /\ mimeType' = [mimeType EXCEPT ![r] = selectMimeType(supported)]
  /\ IF selectMimeType(supported) \in supported
     THEN \* new MediaRecorder and start() succeed, setRecording
          /\ phase' = [phase EXCEPT ![r] = "recording"]
          /\ recording' = r
          /\ UNCHANGED alerts
     ELSE \* the constructor throws NotSupportedError: catch, alert
          /\ phase' = [phase EXCEPT ![r] = "ctorFailed"]
          /\ alerts' = [alerts EXCEPT ![r] = @ + 1]
          /\ UNCHANGED recording
  /\ UNCHANGED << supported, chunks, audioData, path, decodeCalls, stopRuns,
                  setCalls, stopOrder, setOrder >>
  /\ UNCHANGED offPage

\* a catch block that alerts and asks for the microphone again
getUserMediaRejectedRetry(r) ==
  /\ phase[r] = "awaitPerm"
  /\ alerts[r] < 2
  /\ alerts' = [alerts EXCEPT ![r] = @ + 1]
  /\ UNCHANGED << supported, phase, mimeType, streamLive, chunks, recording,
                  audioData, path, decodeCalls, stopRuns, setCalls,
                  stopOrder, setOrder >>
  /\ UNCHANGED offPage

\* getUserMedia rejected (permission denied, no device): catch, alert
getUserMediaRejected(r) ==
  /\ phase[r] = "awaitPerm"
  /\ phase' = [phase EXCEPT ![r] = "denied"]
  /\ alerts' = [alerts EXCEPT ![r] = @ + 1]
  /\ UNCHANGED << supported, mimeType, streamLive, chunks, recording,
                  audioData, path, decodeCalls, stopRuns, setCalls,
                  stopOrder, setOrder >>
  /\ UNCHANGED offPage

(* ---------------------------- stopRecording ---------------------------- *)

\* mic button tapped while `recording` holds a recorder
stopRecording ==
  /\ recording # 0
  /\ phase' = [phase EXCEPT ![recording] = "stopping"]
  /\ streamLive' = [streamLive EXCEPT ![recording] = FALSE]
  /\ stopOrder' = Append(stopOrder, recording)
  /\ recording' = 0
  /\ UNCHANGED << supported, mimeType, chunks, audioData, alerts, path,
                  decodeCalls, stopRuns, setCalls, setOrder >>
  /\ UNCHANGED offPage

\* chunks after the dataavailable handler has seen data of the given size
ondataavailable(r, size) ==
  IF size > 0 THEN Append(chunks[r], r) ELSE chunks[r]

\* the task recorder.stop() queues: it fires dataavailable and then stop, so
\* the dataavailable handler runs first and the stop handler follows in the
\* same task, up to its first await (or to its end when it has none)
onstop(r, size) ==
  /\ phase[r] = "stopping"
  /\ chunks' = [chunks EXCEPT ![r] = ondataavailable(r, size)]
  /\ stopRuns' = [stopRuns EXCEPT ![r] = @ + 1]
  /\ IF needsConversion(mimeType[r])
     THEN /\ phase' = [phase EXCEPT ![r] = "decoding"]
          /\ decodeCalls' = [decodeCalls EXCEPT ![r] = @ + 1]
          /\ UNCHANGED << audioData, setCalls, setOrder, path >>
     ELSE /\ phase' = [phase EXCEPT ![r] = "done"]
          /\ path' = [path EXCEPT ![r] = "pass"]
          /\ setAudioData(r, Blob(ondataavailable(r, size), mimeType[r]))
          /\ UNCHANGED decodeCalls
  /\ UNCHANGED << supported, mimeType, streamLive, recording, alerts,
                  stopOrder >>
  /\ UNCHANGED offPage

\* a try block that throws after its setAudioData, so that the catch block
\* stores the captured blob as well
convertToWavResolvedTwice(r, ab) ==
  /\ phase[r] = "decoding"
  /\ phase' = [phase EXCEPT ![r] = "done"]
  /\ path' = [path EXCEPT ![r] = "fallback"]
  /\ audioData' = Blob(chunks[r], mimeType[r])
  /\ setCalls' = [setCalls EXCEPT ![r] = @ + 2]
  /\ setOrder' = Append(Append(setOrder, r), r)
  /\ UNCHANGED << supported, mimeType, streamLive, chunks, recording, alerts,
                  decodeCalls, stopRuns, stopOrder >>
  /\ UNCHANGED offPage

\* convertToWav resolved: the stop handler resumes in its try block
convertToWavResolved(r, ab) ==
  /\ phase[r] = "decoding"
  /\ phase' = [phase EXCEPT ![r] = "done"]
  /\ path' = [path EXCEPT ![r] = "converted"]
  /\ setAudioData(r, audioBufferToWav(ab))
  /\ UNCHANGED << supported, mimeType, streamLive, chunks, recording, alerts,
                  decodeCalls, stopRuns, stopOrder >>
  /\ UNCHANGED offPage

\* a stop handler without the catch block: the rejection ends the handler
convertToWavRejectedUncaught(r) ==
  /\ phase[r] = "decoding"
  /\ phase' = [phase EXCEPT ![r] = "done"]
  /\ path' = [path EXCEPT ![r] = "fallback"]
  /\ UNCHANGED << supported, mimeType, streamLive, chunks, recording, alerts,
                  audioData, setCalls, setOrder, decodeCalls, stopRuns,
                  stopOrder >>
  /\ UNCHANGED offPage

\* convertToWav rejected: the stop handler resumes in its catch block
convertToWavRejected(r) ==
  /\ phase[r] = "decoding"
  /\ phase' = [phase EXCEPT ![r] = "done"]
  /\ path' = [path EXCEPT ![r] = "fallback"]
  /\ setAudioData(r, Blob(chunks[r], mimeType[r]))
  /\ UNCHANGED << supported, mimeType, streamLive, chunks, recording, alerts,
                  decodeCalls, stopRuns, stopOrder >>
  /\ UNCHANGED offPage

Next ==
  \/ startRecording
  \/ \E r \in Recs : getUserMediaResolved(r)
  \/ \E r \in Recs : getUserMediaRejected(r)
  \/ stopRecording
  \/ \E r \in Recs, size \in {0, 1} : onstop(r, size)
  \/ \E r \in Recs, ab \in decodeResults : convertToWavResolved(r, ab)
  \/ \E r \in Recs : convertToWavRejected(r)

Spec == Init /\ [][Next]_vars

\* the start/stop cycle of the mic button on every platform: any set of
\* supported formats, recorders followed up to their stop
InitSelect == InitOn(SUBSET Candidates, {NoBuffer})

NextSelect ==
  \/ startRecording
  \/ \E r \in Recs : getUserMediaResolved(r)
  \/ \E r \in Recs : getUserMediaRejected(r)
  \/ stopRecording

SpecSelect == InitSelect /\ [][NextSelect]_vars

\* the event loop runs every queued recorder event, and every decode settles
SpecFair ==
  /\ Init /\ [][Next]_vars
  /\ \A r \in Recs :
       /\ WF_vars(\E size \in {0, 1} : onstop(r, size))
       /\ WF_vars(convertToWavRejected(r)
                    \/ \E ab \in decodeResults : convertToWavResolved(r, ab))

(* ----------------------- audioBufferToWav alone ------------------------ *)

\* the amplitudes of the buffers converted on their own:
\* -2.0, -1.0, 0.0, 0.5, 1.0, 1.5
wavSampleVals == {-8, -4, 0, 2, 4, 6}

\* their sample rates
wavSampleRates == {8000, 44100}

\* the decoded buffers converted on their own: every channel count up to
\* MaxChannels, every length up to MaxSamples, every amplitude above
wavInputs ==
  { [sampleRate |-> sr, channels |-> ch] :
      sr \in wavSampleRates,
      ch \in { c \in SeqsUpTo(SeqsUpTo(wavSampleVals, MaxSamples), MaxChannels) :
                 /\ Len(c) >= 1
                 /\ \A i \in 1..Len(c) : Len(c[i]) = Len(c[1]) } }

InitWav == InitOn({Candidates}, wavInputs)

\* convertToWav after its decode resolved with audioBuffer
convertToWav ==
  /\ wavBlob = NoAudio
  /\ wavBlob' = audioBufferToWav(audioBuffer)
  /\ UNCHANGED << pageVars, analyzeVars, audioBuffer, offRecordingPage >>

NextWav == convertToWav

SpecWav == InitWav /\ [][NextWav]_vars

(* ---------------------------- handleAnalyze ---------------------------- *)

\* Analyze pressed (the page is still shown): without audioData an alert and
\* return, else the recorded blob is appended as `file` and the request sent
handleAnalyze ==
  /\ navigations = 0
  /\ \E a \in Analyses :
       /\ analyze[a] = "idle"
       /\ \A b \in Analyses : b < a => analyze[b] # "idle"
       /\ IF audioData = NoAudio
          THEN /\ analyze' = [analyze EXCEPT ![a] = "noAudio"]
               /\ analyzeAlerts' = [analyzeAlerts EXCEPT ![a] = @ + 1]
               /\ UNCHANGED file
          ELSE /\ analyze' = [analyze EXCEPT ![a] = "pending"]
               /\ file' = [file EXCEPT ![a] = audioData]
               /\ UNCHANGED analyzeAlerts
  /\ UNCHANGED << pageVars, emotionResult, navigations, wavVars,
                  offRecordingPage >>

\* the response is OK and its JSON parsed: store the result, call onAnalyze
fetchResolved(a) ==
  /\ analyze[a] = "pending"
  /\ analyze' = [analyze EXCEPT ![a] = "done"]
  /\ emotionResult' = a
  /\ navigations' = navigations + 1
  /\ UNCHANGED << pageVars, file, analyzeAlerts, wavVars, offRecordingPage >>

\* a catch block that also drops the recording
fetchFailedClears(a, why) ==
  /\ analyze[a] = "pending"
  /\ analyze' = [analyze EXCEPT ![a] = "failed"]
  /\ analyzeAlerts' = [analyzeAlerts EXCEPT ![a] = @ + 1]
  /\ audioData' = NoAudio
  /\ UNCHANGED << supported, phase, mimeType, streamLive, chunks, recording,
                  alerts, path, decodeCalls, stopRuns, setCalls, stopOrder,
                  setOrder, file, emotionResult, navigations, wavVars,
                  offRecordingPage >>

\* the request failed (network error, response not OK, JSON unreadable):
\* the catch block alerts
fetchFailed(a, why) ==
  /\ analyze[a] = "pending"
  /\ analyze' = [analyze EXCEPT ![a] = "failed"]
  /\ analyzeAlerts' = [analyzeAlerts EXCEPT ![a] = @ + 1]
  /\ UNCHANGED << pageVars, file, emotionResult, navigations, wavVars,
                  offRecordingPage >>

\* the recording page with its Analyze button, followed while no decode of a
\* stopped recording has settled yet
NextAnalyze ==
  \/ startRecording
  \/ \E r \in Recs : getUserMediaResolved(r)
  \/ \E r \in Recs : getUserMediaRejected(r)
  \/ stopRecording
  \/ \E r \in Recs, size \in {0, 1} : onstop(r, size)
  \/ handleAnalyze
  \/ \E a \in Analyses : fetchResolved(a)
  \/ \E a \in Analyses, why \in {"network", "notOk", "json"} :
       fetchFailed(a, why)

SpecAnalyze == Init /\ [][NextAnalyze]_vars

(* --------------------------- storage module ---------------------------- *)

\* number of calls of the storage module followed in one behaviour; each
\* call finds the clock one tick later
MaxClock == 3

\* the lengths the conversation history and the emotion results are cut to
maxConversations == 100
maxResults == 50

\* r[f], or undef when the object r has no property f
field(r, f, undef) == IF f \in DOMAIN r THEN r[f] ELSE undef

\* a || b on strings and on numbers
or(a, b, falsy) == IF a # falsy THEN a ELSE b

\* array.slice(0, n)
slice(arr, n) == SubSeq(arr, 1, IF n < Len(arr) THEN n ELSE Len(arr))

\* the arguments the calls are given
profileArgs == {[name |-> "ann"]}
surveyArgs == {[sleep |-> "good"]}
sessionArgs == {[page |-> "chat"]}
conversationArgs == {[text |-> "hi"]}
emotionResultArgs ==
  {[final_emotion |-> "happy", emotion |-> "sad",
    final_confidence |-> 90, confidence |-> 50],
   [emotion |-> "sad", confidence |-> 50],
   [transcription |-> "hm"]}

\* { ...profile, updatedAt } and its like: the later property wins
saveUserProfileTo(ls, profile, t) ==
  setItem(ls, STORAGE_KEYS.USER_PROFILE,
          stringify([updatedAt |-> t] @@ profile))

saveSurveyDataTo(ls, surveyData, t) ==
  setItem(ls, STORAGE_KEYS.SURVEY_DATA,
          stringify([completedAt |-> t] @@ surveyData))

saveSessionTo(ls, sessionData, t) ==
  setItem(ls, STORAGE_KEYS.LAST_SESSION,
          stringify([savedAt |-> t] @@ sessionData))

\* the getters: the parsed entry, or the empty value when there is none
getUserProfile(ls) ==
  IF getItem(ls, STORAGE_KEYS.USER_PROFILE) # null
  THEN parse(getItem(ls, STORAGE_KEYS.USER_PROFILE)) ELSE null

getSurveyData(ls) ==
  IF getItem(ls, STORAGE_KEYS.SURVEY_DATA) # null
  THEN parse(getItem(ls, STORAGE_KEYS.SURVEY_DATA)) ELSE null

getSession(ls) ==
  IF getItem(ls, STORAGE_KEYS.LAST_SESSION) # null
  THEN parse(getItem(ls, STORAGE_KEYS.LAST_SESSION)) ELSE null

\* limit 0 stands for the default limit = null
getConversationHistory(ls, limit) ==
  LET history == IF getItem(ls, STORAGE_KEYS.CONVERSATION_HISTORY) # null
                 THEN parse(getItem(ls, STORAGE_KEYS.CONVERSATION_HISTORY))
                 ELSE << >>
  IN  IF limit # 0 THEN slice(history, limit) ELSE history

getEmotionResults(ls, limit) ==
  LET results == IF getItem(ls, STORAGE_KEYS.EMOTION_RESULTS) # null
                 THEN parse(getItem(ls, STORAGE_KEYS.EMOTION_RESULTS))
                 ELSE << >>
  IN  IF limit # 0 THEN slice(results, limit) ELSE results

\* { id, timestamp, ...conversation }: the argument's properties win
newConversation(conversation, t) ==
  conversation @@ [id |-> t, timestamp |-> t]

newResult(result, t) ==
  result @@ [id |-> t, timestamp |-> t]

\* history.unshift(newConversation) at the end of the list instead
addConversationAppends(ls, conversation, t) ==
  setItem(ls, STORAGE_KEYS.CONVERSATION_HISTORY,
          stringify(slice(Append(getConversationHistory(ls, 0),
                                 newConversation(conversation, t)),
                          maxConversations)))

\* addConversation up to its setItem: the new entry in front, the list cut
addConversationTo(ls, conversation, t) ==
  setItem(ls, STORAGE_KEYS.CONVERSATION_HISTORY,
          stringify(slice(<< newConversation(conversation, t) >>
                            \o getConversationHistory(ls, 0),
                          maxConversations)))

\* saveEmotionResult up to its setItem
saveEmotionResultTo(ls, result, t) ==
  setItem(ls, STORAGE_KEYS.EMOTION_RESULTS,
          stringify(slice(<< newResult(result, t) >>
                            \o getEmotionResults(ls, 0),
                          maxResults)))

\* clearAllData: removeItem for each value of STORAGE_KEYS
clearAllDataOn(ls) ==
  [key \in DOMAIN ls |-> IF key \in storageKeys THEN null ELSE ls[key]]

\* the object exportAllData returns at time t
exportAllDataOf(ls, t) ==
  [userProfile |-> getUserProfile(ls),
   surveyData |-> getSurveyData(ls),
   conversations |-> getConversationHistory(ls, 0),
   emotionResults |-> getEmotionResults(ls, 0),
   lastSession |-> getSession(ls),
   exportedAt |-> t]

\* if (data.f) for a property holding an object or null: absent and null
\* are falsy
truthyObject(data, f) == f \in DOMAIN data /\ data[f] # null

\* if (data.f) for a property holding an array: only absent is falsy, the
\* empty array is truthy
truthyArray(data, f) == f \in DOMAIN data

\* an importData that skips the session
importDataSkipsSession(ls, data, t) ==
  LET s1 == IF truthyObject(data, "userProfile")
            THEN saveUserProfileTo(ls, data.userProfile, t) ELSE ls
      s2 == IF truthyObject(data, "surveyData")
            THEN saveSurveyDataTo(s1, data.surveyData, t) ELSE s1
      s3 == IF truthyArray(data, "conversations")
            THEN setItem(s2, STORAGE_KEYS.CONVERSATION_HISTORY,
                         stringify(data.conversations)) ELSE s2
  IN  IF truthyArray(data, "emotionResults")
      THEN setItem(s3, STORAGE_KEYS.EMOTION_RESULTS,
                   stringify(data.emotionResults)) ELSE s3

\* importData: each part of the backup that is there is written back
importDataTo(ls, data, t) ==
  LET s1 == IF truthyObject(data, "userProfile")
            THEN saveUserProfileTo(ls, data.userProfile, t) ELSE ls
      s2 == IF truthyObject(data, "surveyData")
            THEN saveSurveyDataTo(s1, data.surveyData, t) ELSE s1
      s3 == IF truthyArray(data, "conversations")
            THEN setItem(s2, STORAGE_KEYS.CONVERSATION_HISTORY,
                         stringify(data.conversations)) ELSE s2
      s4 == IF truthyArray(data, "emotionResults")
            THEN setItem(s3, STORAGE_KEYS.EMOTION_RESULTS,
                         stringify(data.emotionResults)) ELSE s3
  IN  IF truthyObject(data, "lastSession")
      THEN saveSessionTo(s4, data.lastSession, t) ELSE s4

\* the emotion and the confidence getEmotionStatistics reads off a result;
\* a missing emotion becomes the property name "undefined"
emotionOf(result) ==
  LET emotion == or(field(result, "final_emotion", ""),
                    field(result, "emotion", ""), "")
  IN  IF emotion = "" THEN "undefined" ELSE emotion

confidenceOf(result) ==
  or(or(field(result, "final_confidence", 0),
        field(result, "confidence", 0), 0), 0, 0)

\* the emotions met in the results
emotionsOf(results) == {emotionOf(results[i]) : i \in 1..Len(results)}

\* the index of the first result with the emotion
firstIndex(results, emotion) ==
  CHOOSE i \in 1..Len(results) :
    /\ emotionOf(results[i]) = emotion
    /\ \A j \in 1..(i - 1) : emotionOf(results[j]) # emotion

\* Object.keys(distribution): the emotions in the order the forEach loop
\* met them first
objectKeys(results) ==
  [k \in 1..Cardinality(emotionsOf(results)) |->
     CHOOSE emotion \in emotionsOf(results) :
       Cardinality({other \in emotionsOf(results) :
                      firstIndex(results, other) < firstIndex(results, emotion)})
         = k - 1]

\* the sum of c times the number of results of confidence c, over the
\* confidences in cs
RECURSIVE sumByConfidence(_, _)
sumByConfidence(results, cs) ==
  IF cs = {} THEN 0
  ELSE LET c == CHOOSE x \in cs : TRUE
       IN  c * Cardinality({i \in 1..Len(results) :
                              confidenceOf(results[i]) = c})
             + sumByConfidence(results, cs \ {c})

\* totalConfidence after the forEach loop
totalConfidence(results) ==
  sumByConfidence(results,
                  {confidenceOf(results[i]) : i \in 1..Len(results)})

\* a reduce that keeps the emotion with the smaller count
RECURSIVE reduceLeastCommon(_, _, _, _)
reduceLeastCommon(keys, distribution, i, a) ==
  IF i > Len(keys) THEN a
  ELSE reduceLeastCommon(keys, distribution, i + 1,
         IF distribution[a] < distribution[keys[i]] THEN a ELSE keys[i])

\* keys.reduce((a, b) => distribution[a] > distribution[b] ? a : b) from
\* element i on, with accumulator a
RECURSIVE reduceMostCommon(_, _, _, _)
reduceMostCommon(keys, distribution, i, a) ==
  IF i > Len(keys) THEN a
  ELSE reduceMostCommon(keys, distribution, i + 1,
         IF distribution[a] > distribution[keys[i]] THEN a ELSE keys[i])

\* averageConfidence is the fraction num / den
getEmotionStatisticsOf(ls) ==
  LET results == getEmotionResults(ls, 0)
      keys == objectKeys(results)
      distribution ==
        [emotion \in {keys[j] : j \in 1..Len(keys)} |->
           Cardinality({i \in 1..Len(results) :
                          emotionOf(results[i]) = emotion})]
  IN  IF Len(results) = 0
      THEN [total |-> 0, distribution |-> << >>, mostCommon |-> null,
            averageConfidence |-> [num |-> 0, den |-> 1]]
      ELSE [total |-> Len(results),
            distribution |-> distribution,
            mostCommon |-> reduceMostCommon(keys, distribution, 2, keys[1]),
            averageConfidence |->
              [num |-> totalConfidence(results),
               den |-> Len(results)]]

\* what the storage module leaves alone
offStorage == << pageVars, analyzeVars, wavVars, chatVars >>

\* a call of the storage module at the next tick of the clock: the storage
\* it leaves behind and the value it returns; the caller keeps its backup
call(ls, value) ==
  /\ now < MaxClock
  /\ now' = now + 1
  /\ localStorage' = ls
  /\ returned' = value
  /\ UNCHANGED << backup, offStorage >>

\* the save functions; quota is setItem throwing QuotaExceededError, which
\* the catch block turns into the return value false (null for the lists)
saveUserProfile(profile, quota) ==
  IF quota THEN call(localStorage, false)
  ELSE call(saveUserProfileTo(localStorage, profile, now + 1), true)

saveSurveyData(surveyData, quota) ==
  IF quota THEN call(localStorage, false)
  ELSE call(saveSurveyDataTo(localStorage, surveyData, now + 1), true)

saveSession(sessionData, quota) ==
  IF quota THEN call(localStorage, false)
  ELSE call(saveSessionTo(localStorage, sessionData, now + 1), true)

addConversation(conversation, quota) ==
  IF quota THEN call(localStorage, null)
  ELSE call(addConversationTo(localStorage, conversation, now + 1),
            newConversation(conversation, now + 1))

saveEmotionResult(result, quota) ==
  IF quota THEN call(localStorage, null)
  ELSE call(saveEmotionResultTo(localStorage, result, now + 1),
            newResult(result, now + 1))

clearConversationHistory ==
  call(removeItem(localStorage, STORAGE_KEYS.CONVERSATION_HISTORY), true)

clearAllData == call(clearAllDataOn(localStorage), true)

getEmotionStatistics ==
  call(localStorage, getEmotionStatisticsOf(localStorage))

\* exportAllData: the caller keeps the object it returns
exportAllData ==
  /\ now < MaxClock
  /\ now' = now + 1
  /\ backup' = exportAllDataOf(localStorage, now + 1)
  /\ returned' = backup'
  /\ UNCHANGED << localStorage, offStorage >>

\* backups that did not come out of this storage: an empty object, and one
\* with a list longer than the storage module cuts its own lists to
foreignBackups ==
  {[exportedAt |-> 0],
   [conversations |->
      [i \in 1..(maxConversations + 1) |->
         [id |-> 0 - i, timestamp |-> 0 - i, text |-> "hi"]],
    emotionResults |->
      [i \in 1..(maxResults + 1) |->
         [id |-> 0 - i, timestamp |-> 0 - i, emotion |-> "sad",
          confidence |-> 50]],
    exportedAt |-> 0]}

importData(data) == call(importDataTo(localStorage, data, now + 1), true)

\* page 4, handleNext: the survey page stores its answers under userSurvey
handleNext ==
  /\ now < MaxClock
  /\ now' = now + 1
  /\ localStorage' =
       setItem(localStorage, "userSurvey",
               stringify([gender |-> "f", sleep |-> "good",
                          dayQuality |-> "fine", timestamp |-> now + 1]))
  /\ UNCHANGED << backup, returned, offStorage >>

\* the storage a returning user brings along: a profile, a survey and a
\* session, lists one entry short of their limits, the survey page's
\* answers, a chat history and an analysis result
usedStorage ==
  LET s1 == saveUserProfileTo(emptyStorage, [name |-> "ann"], 0 - 200)
      s2 == saveSurveyDataTo(s1, [sleep |-> "good"], 0 - 200)
      s3 == saveSessionTo(s2, [page |-> "chat"], 0 - 200)
      s4 == setItem(s3, STORAGE_KEYS.CONVERSATION_HISTORY,
              stringify([i \in 1..(maxConversations - 1) |->
                           [id |-> 0 - i, timestamp |-> 0 - i,
                            text |-> "hi"]]))
      s5 == setItem(s4, STORAGE_KEYS.EMOTION_RESULTS,
              stringify([i \in 1..(maxResults - 1) |->
                           [id |-> 0 - i, timestamp |-> 0 - i,
                            emotion |-> "sad", confidence |-> 50]]))
      s6 == setItem(s5, "userSurvey",
              stringify([gender |-> "f", sleep |-> "good",
                         dayQuality |-> "fine", timestamp |-> 0 - 200]))
  IN  setItem(s6, "chatHistory",
        stringify(initialMessage \o
          << [sender |-> "user", text |-> "typed", emotion |-> neutral,
              of |-> 0] >>))

\* the application opened on a new or on a used storage
InitStored ==
  /\ recordingPageInit({Candidates}, {NoBuffer})
  /\ \E ls \in {emptyStorage, usedStorage} :
       /\ offRecordingPageInit(ls)
       /\ emotionResult = IF ls = usedStorage THEN 1 ELSE 0

NextStorage ==
  \/ \E profile \in profileArgs, quota \in BOOLEAN :
       saveUserProfile(profile, quota)
  \/ \E surveyData \in surveyArgs, quota \in BOOLEAN :
       saveSurveyData(surveyData, quota)
  \/ \E sessionData \in sessionArgs, quota \in BOOLEAN :
       saveSession(sessionData, quota)
  \/ \E conversation \in conversationArgs, quota \in BOOLEAN :
       addConversation(conversation, quota)
  \/ \E result \in emotionResultArgs, quota \in BOOLEAN :
       saveEmotionResult(result, quota)
  \/ clearConversationHistory
  \/ clearAllData
  \/ getEmotionStatistics
  \/ exportAllData
  \/ \E data \in foreignBackups \cup ({backup} \ {null}) : importData(data)
  \/ handleNext

SpecStorage == InitStored /\ [][NextStorage]_vars

(* ------------------------------ chat page ------------------------------ *)

\* what the chat page leaves alone
offChat == << pageVars, analyzeVars, wavVars, now, backup, returned >>

\* setMessages followed by the effect that runs once the list has changed:
\* a list of more than one message is written to chatHistory
setMessages(msgs) ==
  /\ messages' = msgs
  /\ localStorage' =
       IF Len(msgs) > 1
       THEN setItem(localStorage, "chatHistory", stringify(msgs))
       ELSE localStorage

\* prev.map((msg, idx) => idx === prev.length - 1 ? { ...msg, ...change }
\* : msg): the properties of change overwrite those of the last message
mapLast(prev, change) ==
  [prev EXCEPT ![Len(prev)] = change @@ @]

\* clearHistory, confirmed (a cancelled confirm changes nothing)
clearHistory ==
  /\ messages' = initialMessage
  /\ localStorage' = removeItem(localStorage, "chatHistory")
  /\ UNCHANGED << isLoading, currentEmotion, isRecording, send, offChat >>

\* sendMessage with an input that is not blank (a blank one returns at
\* once), up to its await of fetch; the input and the send button are
\* disabled while isRecording
sendMessage(m) ==
  /\ isRecording = 0
  /\ send[m] = "idle"
  /\ \A k \in Sends : k < m => send[k] # "idle"
  /\ setMessages(Append(messages,
       [sender |-> "user", text |-> "typed", emotion |-> analyzing,
        of |-> m]))
  /\ isLoading' = TRUE
  /\ send' = [send EXCEPT ![m] = "chat"]
  /\ UNCHANGED << currentEmotion, isRecording, offChat >>

\* /chat answered OK and its JSON was read: the emotion is written on the
\* last message and the reply is put on a 500 ms timer
chatResolved(m) ==
  /\ send[m] = "chat"
  /\ setMessages(mapLast(messages, [emotion |-> detected_emotion(m)]))
  /\ currentEmotion' = detected_emotion(m)
  /\ send' = [send EXCEPT ![m] = "timerReply"]
  /\ UNCHANGED << isLoading, isRecording, offChat >>

\* /chat or /predict answered with a status that is not OK: the handler has
\* no else branch and returns
responseNotOk(m) ==
  /\ send[m] \in {"chat", "predict", "voiceChat"}
  /\ send' = [send EXCEPT ![m] = "dropped"]
  /\ UNCHANGED << localStorage, messages, isLoading, currentEmotion,
                  isRecording, offChat >>

\* fetch or response.json() of sendMessage threw: the catch block puts the
\* fallback reply on a 500 ms timer
chatFailed(m) ==
  /\ send[m] = "chat"
  /\ send' = [send EXCEPT ![m] = "timerFallback"]
  /\ UNCHANGED << localStorage, messages, isLoading, currentEmotion,
                  isRecording, offChat >>

\* the timer of a reply fires
timerFired(m) ==
  /\ send[m] \in {"timerReply", "timerFallback"}
  /\ setMessages(Append(messages,
       [sender |-> "bot",
        text |-> IF send[m] = "timerReply" THEN "reply" ELSE "fallback",
        emotion |-> calm, of |-> m]))
  /\ isLoading' = FALSE
  /\ send' = [send EXCEPT ![m] = "done"]
  /\ UNCHANGED << currentEmotion, isRecording, offChat >>

\* the microphone button while not recording, with getUserMedia granted
\* (a denial alerts and changes nothing)
page7StartRecording(m) ==
  /\ isRecording = 0
  /\ send[m] = "idle"
  /\ \A k \in Sends : k < m => send[k] # "idle"
  /\ isRecording' = m
  /\ send' = [send EXCEPT ![m] = "recording"]
  /\ UNCHANGED << localStorage, messages, isLoading, currentEmotion,
                  offChat >>

\* the microphone button while recording
page7StopRecording ==
  /\ isRecording # 0
  /\ send' = [send EXCEPT ![isRecording] = "stopping"]
  /\ isRecording' = 0
  /\ UNCHANGED << localStorage, messages, isLoading, currentEmotion,
                  offChat >>

\* the recorder's stop handler calls processVoiceMessage, which runs up to
\* its await of fetch
processVoiceMessage(m) ==
  /\ send[m] = "stopping"
  /\ isLoading' = TRUE
  /\ setMessages(Append(messages,
       [sender |-> "user", text |-> "voice", emotion |-> analyzing,
        of |-> m]))
  /\ send' = [send EXCEPT ![m] = "predict"]
  /\ UNCHANGED << currentEmotion, isRecording, offChat >>

\* /predict answered OK: transcription and emotion are written on the last
\* message, then /chat is asked for the reply
predictResolved(m) ==
  /\ send[m] = "predict"
  /\ setMessages(mapLast(messages,
       [text |-> "transcription", emotion |-> detected_emotion(m)]))
  /\ currentEmotion' = detected_emotion(m)
  /\ send' = [send EXCEPT ![m] = "voiceChat"]
  /\ UNCHANGED << isLoading, isRecording, offChat >>

\* the second request answered OK: the reply is put on a 500 ms timer
voiceChatResolved(m) ==
  /\ send[m] = "voiceChat"
  /\ send' = [send EXCEPT ![m] = "timerReply"]
  /\ UNCHANGED << localStorage, messages, isLoading, currentEmotion,
                  isRecording, offChat >>

\* one of the requests of processVoiceMessage threw: the catch block marks
\* the last message as failed
voiceFailed(m) ==
  /\ send[m] \in {"predict", "voiceChat"}
  /\ setMessages(mapLast(messages,
       [text |-> "failed", emotion |-> neutral]))
  /\ isLoading' = FALSE
  /\ send' = [send EXCEPT ![m] = "done"]
  /\ UNCHANGED << currentEmotion, isRecording, offChat >>

\* the chat page opened by a new or by a returning user
InitChat ==
  /\ recordingPageInit({Candidates}, {NoBuffer})
  /\ \E ls \in {emptyStorage, usedStorage} :
       /\ offRecordingPageInit(ls)
       /\ emotionResult = IF ls = usedStorage THEN 1 ELSE 0

\* what the backend, the timers and the recorder do on their own
NextChatSystem ==
  \/ \E m \in Sends : chatResolved(m)
  \/ \E m \in Sends : responseNotOk(m)
  \/ \E m \in Sends : chatFailed(m)
  \/ \E m \in Sends : timerFired(m)
  \/ \E m \in Sends : processVoiceMessage(m)
  \/ \E m \in Sends : predictResolved(m)
  \/ \E m \in Sends : voiceChatResolved(m)
  \/ \E m \in Sends : voiceFailed(m)

NextChat ==
  \/ clearHistory
  \/ \E m \in Sends : sendMessage(m)
  \/ \E m \in Sends : page7StartRecording(m)
  \/ page7StopRecording
  \/ NextChatSystem

SpecChat == InitChat /\ [][NextChat]_vars

\* every request is answered, every timer fires and every stop event is
\* delivered; the user is free to do nothing
SpecChatFair == SpecChat /\ WF_vars(NextChatSystem)

(* ------------------------------ properties ----------------------------- *)

\* the recorder whose setAudioData was called last (0 when none was)
lastSet == IF setOrder = << >> THEN 0 ELSE setOrder[Len(setOrder)]

\* the blob the recorder of invocation r captured
captured(r) == Blob(chunks[r], mimeType[r])

\* a blob tagged as a PCM container whose header, when it has one, announces
\* format 1 (PCM), one channel and 16 bits per sample
isMonoPcm16(b) ==
  /\ b.type = "audio/wav"
  /\ Len(b.data) >= 44 =>
       /\ SubSeq(b.data, 21, 24) = << 1, 0, 1, 0 >>
       /\ SubSeq(b.data, 35, 36) = << 16, 0 >>

\* C1: whatever format was captured and however the decode ended, the blob
\* stored as audioData is single-channel 16-bit little-endian PCM.
C1_AudioDataIsMonoPcm16 ==
  audioData # NoAudio => isMonoPcm16(audioData)

\* C2: at most one recorder started by startRecording is active, and every
\* active recorder is the one held in the `recording` state.
C2_NoOverlappingRecordings ==
  /\ Cardinality({ r \in Recs : phase[r] = "recording" }) <= 1
  /\ \A r \in Recs : phase[r] = "recording" => recording = r

\* C3: no state holds a live microphone stream that belongs to no active
\* recording: every acquired stream is stopped once its recording is over,
\* also when the recorder could not be constructed.
C3_NoLiveStreamWithoutRecording ==
  \A r \in Recs : streamLive[r] => phase[r] = "recording"

\* the recorders stopRecording has stopped
stopped == { stopOrder[i] : i \in 1..Len(stopOrder) }

\* position of recorder r in the order of the stopRecording calls
stopPos(r) == CHOOSE i \in 1..Len(stopOrder) : stopOrder[i] = r

\* C4: finalizations store audioData in the order in which their recordings
\* were stopped, no two re-encodes are in flight at the same time, and once
\* every stopped recording is finalized audioData is that of the last stopped.
C4_FinalizeInStopOrder ==
  /\ Cardinality({ r \in Recs : phase[r] = "decoding" }) <= 1
  /\ \A i, j \in 1..Len(setOrder) :
       i < j => stopPos(setOrder[i]) < stopPos(setOrder[j])
  /\ (stopOrder # << >> /\ \A r \in stopped : phase[r] = "done") =>
       lastSet = stopOrder[Len(stopOrder)]

\* C5: every stopRecording call leads to exactly one execution of the stop
\* handler and exactly one setAudioData for that recording: never two at any
\* moment, none for a recording that was not stopped, and again and again
\* every recording stopped so far has had exactly one of each (a stopped
\* recording stays stopped and the counts never decrease, so each stopped
\* recording eventually has, and keeps, exactly one of each).
C5_ExactlyOneFinalize ==
  /\ [](\A r \in Recs :
         /\ stopRuns[r] <= 1 /\ setCalls[r] <= 1
         /\ r \notin stopped => stopRuns[r] = 0 /\ setCalls[r] = 0)
  /\ []<>(\A r \in Recs :
           r \in stopped => (stopRuns[r] = 1 /\ setCalls[r] = 1))

C5_Witness ==
  \E r \in Recs :
    /\ r \in stopped /\ stopRuns[r] = 1 /\ setCalls[r] = 1
    /\ path[r] = "converted"

\* C6: every captured format other than audio/wav is decoded, and its result
\* is produced by the conversion (downmix, quantize, container) and not by
\* passing the captured blob through.
C6_NonPcmIsConverted ==
  \A r \in Recs :
    (phase[r] = "done" /\ mimeType[r] # "audio/wav") =>
      /\ decodeCalls[r] = 1
      /\ path[r] # "pass"
      /\ (path[r] = "converted" /\ lastSet = r) => isMonoPcm16(audioData)

\* C7: a recording captured as audio/wav never invokes the decoder, and its
\* stop handler stores exactly the captured blob.
C7_PcmPassesThrough ==
  \A r \in Recs :
    mimeType[r] = "audio/wav" =>
      /\ decodeCalls[r] = 0
      /\ phase[r] # "decoding"
      /\ (phase[r] = "done" /\ lastSet = r) => audioData = captured(r)

C7_Witness ==
  \E r \in Recs :
    /\ mimeType[r] = "audio/wav" /\ phase[r] = "done" /\ lastSet = r
    /\ chunks[r] # << >>

\* C8: when the conversion of a recording fails, the stop handler still ends
\* with one setAudioData, and what it stores is the captured blob unchanged.
C8_DecodeFailureFallsBack ==
  \A r \in Recs :
    path[r] = "fallback" =>
      /\ phase[r] = "done" /\ setCalls[r] = 1
      /\ lastSet = r => (audioData = captured(r) /\ audioData # NoAudio)

C8_Witness ==
  \E r \in Recs :
    /\ path[r] = "fallback" /\ lastSet = r /\ chunks[r] # << >>
    /\ mimeType[r] = "audio/ogg;codecs=opus"

\* the fixed preference order of the capture formats
preferenceOrder == << "audio/wav" >> \o formats

\* C9: the chosen capture format is the first supported element of the
\* preference order; the default audio/webm is chosen without being supported
\* only when no candidate is supported.
C9_FirstSupportedIsChosen ==
  \A r \in Recs :
    mimeType[r] # "" =>
      \/ /\ supported \cap Candidates = {}
         /\ mimeType[r] = "audio/webm"
      \/ \E i \in 1..Len(preferenceOrder) :
           /\ mimeType[r] = preferenceOrder[i]
           /\ preferenceOrder[i] \in supported
           /\ \A j \in 1..(i - 1) : preferenceOrder[j] \notin supported

C9_Witness ==
  \E r \in Recs :
    /\ mimeType[r] = "audio/webm;codecs=opus"
    /\ "audio/mp4" \in supported /\ "audio/webm" \in supported
    /\ "audio/wav" \notin supported

\* C10: with microphone permission granted, startRecording shows no alert and
\* does not abort the capture, whatever formats the platform supports.
C10_FormatNeverSurfaced ==
  \A r \in Recs :
    mimeType[r] # "" => (alerts[r] = 0 /\ phase[r] # "ctorFailed")

C12_UploadFailureKeepsRecording ==
  /\ [](\A a \in Analyses :
         analyze[a] = "failed" =>
           (analyzeAlerts[a] = 1 /\ emotionResult # a /\ file[a] # NoAudio))
  /\ [][\A a \in Analyses :
         /\ (analyze[a] = "pending" /\ analyzeAlerts'[a] > analyzeAlerts[a]) =>
              /\ analyze'[a] = "failed" /\ analyzeAlerts'[a] = 1
              /\ audioData' = audioData /\ audioData # NoAudio
              /\ emotionResult' = emotionResult
              /\ navigations' = navigations
              /\ \A b \in Analyses :
                   analyze'[b] = "pending" => analyze[b] = "pending"
         /\ analyze[a] = "failed" => analyze'[a] = "failed"]_vars

C12_Witness ==
  \E a \in Analyses :
    /\ analyze[a] = "failed" /\ analyzeAlerts[a] = 1
    /\ audioData = file[a] /\ emotionResult = 0 /\ navigations = 0

(* ---------------------- reading a container back ----------------------- *)

\* DataView.getUint16(off, true), off counted from 0
getUint16(data, off) == data[off + 1] + 256 * data[off + 2]

\* DataView.getUint32(off, true)
getUint32(data, off) ==
  data[off + 1] + 256 * data[off + 2] + 65536 * data[off + 3]
  + 16777216 * data[off + 4]

\* DataView.getInt16(off, true)
getInt16(data, off) ==
  IF getUint16(data, off) >= 32768 THEN getUint16(data, off) - 65536
  ELSE getUint16(data, off)

\* the i-th 16-bit sample after the 44-byte header
sampleAt(data, i) == getInt16(data, 44 + 2 * (i - 1))

\* number of samples per channel of the converted buffer
sampleCount == Len(audioBuffer.channels[1])

\* the mono sample the conversion has to quantize at index i: the sample of
\* the only channel, or the mean of the first two
monoAt(i) ==
  IF Len(audioBuffer.channels) = 1 THEN audioBuffer.channels[1][i]
  ELSE CHOOSE x \in (-2 * Unit)..(2 * Unit) :
         2 * x = audioBuffer.channels[1][i] + audioBuffer.channels[2][i]

\* C13: the uint32 at offset 40 is the number of bytes that follow the
\* 44-byte header, and every multi-byte header field read back little-endian
\* is the value it stands for.
C13_PayloadLengthLittleEndian ==
  wavBlob # NoAudio =>
    /\ getUint32(wavBlob.data, 40) = Len(wavBlob.data) - 44
    /\ getUint32(wavBlob.data, 4) = 36 + 2 * sampleCount
    /\ getUint32(wavBlob.data, 16) = 16
    /\ getUint16(wavBlob.data, 20) = 1
    /\ getUint16(wavBlob.data, 22) = 1
    /\ getUint16(wavBlob.data, 32) = 2
    /\ getUint16(wavBlob.data, 34) = 16
    /\ getUint32(wavBlob.data, 24) = audioBuffer.sampleRate
    /\ getUint32(wavBlob.data, 28) = 2 * audioBuffer.sampleRate

C13_Witness ==
  /\ wavBlob # NoAudio /\ sampleCount >= 1 /\ Len(audioBuffer.channels) = 2
  /\ getUint32(wavBlob.data, 40) = 2 * sampleCount

\* C14: the container of N samples per channel is 44 + 2*N bytes long.
C14_TotalLength ==
  wavBlob # NoAudio => Len(wavBlob.data) = 44 + 2 * sampleCount

C14_Witness ==
  wavBlob # NoAudio /\ sampleCount >= 1 /\ Len(wavBlob.data) > 44

\* C15: the little-endian uint32 at offset 4 is the total length minus 8.
C15_RiffSize ==
  wavBlob # NoAudio =>
    getUint32(wavBlob.data, 4) = Len(wavBlob.data) - 8

C15_Witness ==
  wavBlob # NoAudio /\ sampleCount >= 1 /\ getUint32(wavBlob.data, 4) > 36

\* C16: byte rate = sample rate * channels * (bit depth / 8) and block
\* alignment = channels * (bit depth / 8), over the channel-count and
\* bit-depth fields of the same header, which are 1 and 16.
C16_ByteRateBlockAlign ==
  wavBlob # NoAudio =>
    LET channels == getUint16(wavBlob.data, 22)
        bits == getUint16(wavBlob.data, 34)
        rate == getUint32(wavBlob.data, 24)
    IN  /\ channels = 1 /\ bits = 16 /\ rate = audioBuffer.sampleRate
        /\ getUint32(wavBlob.data, 28) = rate * channels * (bits \div 8)
        /\ getUint32(wavBlob.data, 28) = 2 * audioBuffer.sampleRate
        /\ getUint16(wavBlob.data, 32) = channels * (bits \div 8)
        /\ getUint16(wavBlob.data, 32) = 2

C16_Witness ==
  /\ wavBlob # NoAudio /\ audioBuffer.sampleRate = 44100
  /\ Len(audioBuffer.channels) = 2 /\ getUint32(wavBlob.data, 28) = 88200

\* C17: with one channel the mono samples are that channel unchanged; with
\* two channels there are as many as in each channel and each is the mean of
\* left and right; these are the samples the container holds, quantized.
C17_Downmix ==
  wavBlob # NoAudio =>
    LET ch == audioBuffer.channels
        mono == downmixToMono(audioBuffer)
    IN  /\ Len(ch) = 1 => mono = ch[1]
        /\ Len(ch) = 2 =>
             /\ Len(mono) = Len(ch[1])
             /\ \A i \in 1..Len(ch[1]) : 2 * mono[i] = ch[1][i] + ch[2][i]
        /\ Len(ch) <= 2 =>
             \A i \in 1..sampleCount :
               sampleAt(wavBlob.data, i) = getInt16(quantize(monoAt(i)), 0)

C17_Witness ==
  /\ wavBlob # NoAudio /\ Len(audioBuffer.channels) = 2 /\ sampleCount >= 1
  /\ audioBuffer.channels[1][1] = 4 /\ audioBuffer.channels[2][1] = 0
  /\ sampleAt(wavBlob.data, 1) = 16383

\* C18: a sample above 1 is written as the sample 1 is, a sample below -1 as
\* the sample -1 is, and every written sample lies in -32768..32767.
C18_ClampBeforeScale ==
  wavBlob # NoAudio =>
    \A i \in 1..sampleCount :
      /\ monoAt(i) > Unit =>
           sampleAt(wavBlob.data, i) = getInt16(quantize(Unit), 0)
      /\ monoAt(i) < -Unit =>
           sampleAt(wavBlob.data, i) = getInt16(quantize(-Unit), 0)
      /\ sampleAt(wavBlob.data, i) \in -32768..32767

C18_Witness ==
  /\ wavBlob # NoAudio /\ sampleCount >= 1
  /\ Len(audioBuffer.channels) = 1 /\ audioBuffer.channels[1][1] = 6
  /\ sampleAt(wavBlob.data, 1) = 32767

\* C19: the sample 1.0 is written as 32767, -1.0 as -32768 and 0.0 as 0;
\* 0.5 scales by 32767 to 16383.5 and is stored truncated, as 16383.
C19_QuantizeEndpoints ==
  wavBlob # NoAudio =>
    \A i \in 1..sampleCount :
      /\ monoAt(i) = Unit => sampleAt(wavBlob.data, i) = 32767
      /\ monoAt(i) = -Unit => sampleAt(wavBlob.data, i) = -32768
      /\ monoAt(i) = 0 => sampleAt(wavBlob.data, i) = 0
      /\ 2 * monoAt(i) = Unit => sampleAt(wavBlob.data, i) = 16383

C19_Witness ==
  /\ wavBlob # NoAudio /\ sampleCount >= 1
  /\ Len(audioBuffer.channels) = 1 /\ audioBuffer.channels[1][1] = -Unit
  /\ sampleAt(wavBlob.data, 1) = -32768

\* C20: a mono buffer of N zero samples becomes a container of 44 + 2*N bytes
\* whose payload bytes are all zero.
C20_Silence ==
  (/\ wavBlob # NoAudio
   /\ Len(audioBuffer.channels) = 1
   /\ \A i \in 1..sampleCount : audioBuffer.channels[1][i] = 0) =>
    /\ Len(wavBlob.data) = 44 + 2 * sampleCount
    /\ \A k \in 45..Len(wavBlob.data) : wavBlob.data[k] = 0

C20_Witness ==
  /\ wavBlob # NoAudio /\ Len(audioBuffer.channels) = 1
  /\ sampleCount = MaxSamples
  /\ \A i \in 1..sampleCount : audioBuffer.channels[1][i] = 0
  /\ Len(wavBlob.data) = 44 + 2 * MaxSamples

\* C25: whenever handleAnalyze sends an upload request, no recording started
\* after the one held in audioData is in progress or waiting for its stop
\* handler or its conversion: the `file` field never carries the audio of a
\* recording older than one that was started and is not finalized yet.
C25_AnalyzeUploadsLatestRecording ==
  [][\A a \in Analyses :
       (analyze[a] = "idle" /\ analyze'[a] = "pending") =>
         \A r \in Recs :
           phase[r] \in {"recording", "stopping", "decoding"} => r < lastSet
    ]_vars


\* the stored lists, as their getters return them
storedConversations == getConversationHistory(localStorage, 0)
storedResults == getEmotionResults(localStorage, 0)

\* C21: after a successful addConversation the stored history is the new
\* entry followed by the entries stored before, in their order, cut to 100
\* entries, and the new entry is the value returned; likewise for
\* saveEmotionResult with 50 entries.
C21_NewestFirstAndCut ==
  [][/\ \A conversation \in conversationArgs :
          addConversation(conversation, FALSE) =>
            /\ storedConversations' =
                 slice(<< returned' >> \o storedConversations, 100)
            /\ Len(storedConversations') <= 100
            /\ returned' = conversation @@ [id |-> now', timestamp |-> now']
     /\ \A result \in emotionResultArgs :
          saveEmotionResult(result, FALSE) =>
            /\ storedResults' = slice(<< returned' >> \o storedResults, 50)
            /\ Len(storedResults') <= 50
            /\ returned' = result @@ [id |-> now', timestamp |-> now']
    ]_vars

\* two conversations were added to a history of 99: the second is in front
\* and was returned, and the oldest entry was cut off
C21_Witness ==
  /\ Len(storedConversations) = 100
  /\ storedConversations[1].id = 2
  /\ storedConversations[2].id = 1
  /\ storedConversations[100].id = 0 - 98
  /\ returned = storedConversations[1]

\* C22: after clearAllData returned true, no key the application writes holds
\* a value: the five keys of the storage module, userSurvey, chatHistory and
\* emotionResult, so every getter returns its empty value.
C22_ClearAllDataClearsEverything ==
  [][clearAllData =>
       /\ returned' = true
       /\ \A key \in storageKeys \cup pageKeys : localStorage'[key] = null
       /\ emotionResult' = 0
       /\ getUserProfile(localStorage') = null
       /\ getSurveyData(localStorage') = null
       /\ getSession(localStorage') = null
       /\ storedConversations' = << >>
       /\ storedResults' = << >>
    ]_vars

\* objects a and b are equal except for property f (null equals null only)
sameBut(a, b, f) ==
  IF a = null \/ b = null THEN a = b
  ELSE /\ DOMAIN a = DOMAIN b
       /\ \A g \in DOMAIN a \ {f} : a[g] = b[g]

\* C23: in every reachable storage, exportAllData, then clearAllData, then
\* importData of the exported object give back the conversation history and
\* the emotion results as they were, and the profile, the survey and the
\* session as they were except for updatedAt, completedAt and savedAt.
C23_BackupRoundTrip ==
  LET d == exportAllDataOf(localStorage, now + 1)
      restored == importDataTo(clearAllDataOn(localStorage), d, now + 3)
  IN  /\ getConversationHistory(restored, 0) = storedConversations
      /\ getEmotionResults(restored, 0) = storedResults
      /\ sameBut(getUserProfile(restored), getUserProfile(localStorage),
                 "updatedAt")
      /\ sameBut(getSurveyData(restored), getSurveyData(localStorage),
                 "completedAt")
      /\ sameBut(getSession(restored), getSession(localStorage), "savedAt")

\* the round trip was made on a used storage: exported at tick 1, cleared,
\* imported at tick 3; the lists are those of the backup, the stamps are new
C23_Witness ==
  /\ backup # null
  /\ backup.exportedAt = 1
  /\ now = 3
  /\ returned = true
  /\ Len(storedConversations) = maxConversations - 1
  /\ storedConversations = backup.conversations
  /\ storedResults = backup.emotionResults
  /\ getUserProfile(localStorage) # null
  /\ getUserProfile(localStorage).updatedAt = 3
  /\ getUserProfile(localStorage).name = backup.userProfile.name
  /\ backup.userProfile.updatedAt = 0 - 200
  /\ getSession(localStorage) # null
  /\ getSession(localStorage).savedAt = 3

\* the sum of the counts of the emotions in es
RECURSIVE sumOfCounts(_, _)
sumOfCounts(distribution, es) ==
  IF es = {} THEN 0
  ELSE LET e == CHOOSE x \in es : TRUE
       IN  distribution[e] + sumOfCounts(distribution, es \ {e})

\* C24: total is the number of stored results, the counts of distribution
\* sum to total, mostCommon is an emotion whose count is maximal; without
\* results: total 0, empty distribution, mostCommon null, averageConfidence 0.
C24_Statistics ==
  LET st == getEmotionStatisticsOf(localStorage)
  IN  /\ st.total = Len(storedResults)
      /\ sumOfCounts(st.distribution, DOMAIN st.distribution) = st.total
      /\ \A e \in DOMAIN st.distribution :
           st.distribution[e] =
             Cardinality({i \in 1..Len(storedResults) :
                            emotionOf(storedResults[i]) = e})
      /\ IF Len(storedResults) = 0
         THEN /\ DOMAIN st.distribution = {}
              /\ st.mostCommon = null
              /\ st.averageConfidence.num = 0
         ELSE /\ st.mostCommon \in DOMAIN st.distribution
              /\ \A e \in DOMAIN st.distribution :
                   st.distribution[e] <= st.distribution[st.mostCommon]

\* getEmotionStatistics returned the statistics of 50 results with two
\* emotions of different counts
C24_Witness ==
  /\ "total" \in DOMAIN returned
  /\ returned.total = 50
  /\ returned = getEmotionStatisticsOf(localStorage)
  /\ Cardinality(DOMAIN returned.distribution) = 2
  /\ returned.mostCommon = "sad"
  /\ returned.distribution["sad"] = 49

\* C30: whatever calls of the storage module were made, the stored
\* conversation history has at most 100 entries and the stored emotion
\* results at most 50.
C30_ListsStayBounded ==
  /\ Len(storedConversations) <= 100
  /\ Len(storedResults) <= 50


\* C26: every sent text message and every processed voice message ends with
\* isLoading false, whatever the backend answered: isLoading is never true
\* for ever.
C26_LoadingEnds == isLoading ~> ~isLoading

\* C27: the emotion the backend detected for a user message is written on
\* that message and on no other one.
C27_EmotionOnItsMessage ==
  \A i \in 1..Len(messages) :
    messages[i].emotion[1] = "detected" =>
      /\ messages[i].sender = "user"
      /\ messages[i].of = messages[i].emotion[2]

\* C28: once the list is the greeting alone and chatHistory is absent, as
\* clearHistory leaves them, both stay so until the user sends a new text or
\* voice message, also when an answer or a reply timer was still pending.
C28_ClearedUntilNextMessage ==
  [][(/\ messages = initialMessage
      /\ getItem(localStorage, "chatHistory") = null
      /\ ~ \E m \in Sends : sendMessage(m) \/ processVoiceMessage(m))
       => /\ messages' = initialMessage
          /\ getItem(localStorage', "chatHistory") = null
    ]_vars

\* C29: reloading the chat page gives the current list: chatHistory holds
\* the list when it has more than one message and is absent only when the
\* list is the greeting alone.
C29_ReloadGivesCurrentList ==
  /\ loadHistory(localStorage) = messages
  /\ Len(messages) > 1 =>
       getItem(localStorage, "chatHistory") = stringify(messages)
  /\ getItem(localStorage, "chatHistory") = null =>
       messages = initialMessage

====
